---- MODULE Spec2Model ----
(***************************************************************************)
(* Model of the chat FlowchartForm (src/src/components/mermaid-chart.tsx,  *)
(* lines 455-667) and of its exchange with converseAndGenerateFlowchart.   *)
(*                                                                         *)
(* A text is a sequence of segments: a character typed by the user is a    *)
(* one-character segment, a fixed text of the program is one segment.      *)
(* The React state of the component is the five useState variables; `view` *)
(* holds the values the last committed render captured, which are the      *)
(* values the closures handleSendMessage and the JSX read.  Updates made   *)
(* in an event handler are committed before the next event; the updates    *)
(* made after the await are committed by a later render.                   *)
(*                                                                         *)
(* conversationalFlowchartFlow (src/src/ai/flows/conversational-flowchart- *)
(* flow.ts) works on texts taken character by character; `flow` is one run *)
(* of it: its input, what flowchartPrompt does, and its position.          *)
(*                                                                         *)
(* `chart` is one MermaidChart instance (both versions of the component:   *)
(* src/src/components/mermaid-chart.tsx lines 1-141 and                    *)
(* src/unnamed/part_001) and `wizard` the stepped FlowchartForm            *)
(* (mermaid-chart.tsx lines 143-453); each is followed in a specification  *)
(* of its own.  Beside the component's state, `chart` records which parent *)
(* shows it, the closures scheduled with requestAnimationFrame (frames),   *)
(* the mermaid.render calls under way (pending) and, as history, the calls *)
(* made (renders), the result of the latest syntax check (check) and       *)
(* whether a rejected promise was left unhandled (escaped); `wizard`       *)
(* records the step shown before the current one (previousStep).           *)
(***************************************************************************)
EXTENDS Naturals, Sequences, FiniteSets

VARIABLES mounted, conversation, userInput, flowchartDefinition, isLoading, isComplete, view, calls, toasts, flow,
          chart, wizard

vars == <<mounted, conversation, userInput, flowchartDefinition, isLoading, isComplete, view, calls, toasts, flow,
          chart, wizard>>

\* Number of converseAndGenerateFlowchart invocations explored in one session.
MaxCalls == 2

----
\* Texts

Whitespace == {" ", "\n", "\t"}

RECURSIVE trimStart(_)
trimStart(s) ==
    IF s # <<>> /\ Head(s) \in Whitespace THEN trimStart(Tail(s)) ELSE s

RECURSIVE trimEnd(_)
trimEnd(s) ==
    IF s # <<>> /\ s[Len(s)] \in Whitespace THEN trimEnd(SubSeq(s, 1, Len(s) - 1)) ELSE s

trim(s) == trimEnd(trimStart(s))

Contains(s, sub) ==
    \E i \in 1..(Len(s) + 1) : i + Len(sub) - 1 <= Len(s) /\ SubSeq(s, i, i + Len(sub) - 1) = sub

GreetingText == <<"Hello! Describe the user flow you'd like me to turn into a technical flowchart.">>

AcknowledgementText == <<"Great! I have enough information. Here is the generated flowchart:">>

ErrorPrefix == <<"Sorry, I encountered an error: ">>

GenericFailureText == <<"Sorry, I ran into a problem processing that. Could you try rephrasing?">>

\* Values a user can leave in the textarea.
InputTexts == {<<>>, <<" ">>, <<"a">>, <<" ", "b", "\n">>}

\* Contents a reply of converseAndGenerateFlowchart can carry.
ReplyContents == {<<>>, <<"x">>}

ReplyTypes == {"question", "flowchart", "error", "other"}

\* What the awaited promise of line 519 can produce: a result, or a rejection.
Rejection == [kind |-> "rejected", type |-> "", content |-> <<>>]

Outcomes ==
    {[kind |-> "resolved", type |-> ty, content |-> c] : ty \in ReplyTypes, c \in ReplyContents}
        \cup {Rejection}

NoOutcome == [kind |-> "none", type |-> "", content |-> <<>>]

\* string | null : the empty sequence is null, <<d>> holds the text d.
Null == <<>>

Some(d) == <<d>>

----
\* Texts of conversationalFlowchartFlow, character by character
\* (src/src/ai/flows/conversational-flowchart-flow.ts)

UpperCaseLetters ==
    <<"A", "B", "C", "D", "E", "F", "G", "H", "I", "J", "K", "L", "M",
      "N", "O", "P", "Q", "R", "S", "T", "U", "V", "W", "X", "Y", "Z">>

LowerCaseLetters ==
    <<"a", "b", "c", "d", "e", "f", "g", "h", "i", "j", "k", "l", "m",
      "n", "o", "p", "q", "r", "s", "t", "u", "v", "w", "x", "y", "z">>

Digits == {"0", "1", "2", "3", "4", "5", "6", "7", "8", "9"}

\* \w, which is also [a-zA-Z0-9_]
WordChars ==
    {UpperCaseLetters[i] : i \in DOMAIN UpperCaseLetters}
        \cup {LowerCaseLetters[i] : i \in DOMAIN LowerCaseLetters} \cup Digits \cup {"_"}

toLowerCase(s) ==
    [i \in 1..Len(s) |->
        IF \E k \in DOMAIN UpperCaseLetters : UpperCaseLetters[k] = s[i]
        THEN LowerCaseLetters[CHOOSE k \in DOMAIN UpperCaseLetters : UpperCaseLetters[k] = s[i]]
        ELSE s[i]]

startsWith(s, p) == Len(p) <= Len(s) /\ SubSeq(s, 1, Len(p)) = p

endsWith(s, p) == Len(p) <= Len(s) /\ SubSeq(s, Len(s) - Len(p) + 1, Len(s)) = p

Drop(s, n) == SubSeq(s, n + 1, Len(s))

\* The first position from i on whose character is not in the class (Len(s) + 1 if none).
RECURSIVE SkipWhile(_, _, _)
SkipWhile(s, i, class) ==
    IF i <= Len(s) /\ s[i] \in class THEN SkipWhile(s, i + 1, class) ELSE i

RECURSIVE split(_, _)
split(s, sep) ==
    LET i == SkipWhile(s, 1, {c \in {s[k] : k \in DOMAIN s} : c # sep}) IN
    IF i > Len(s) THEN <<s>> ELSE <<SubSeq(s, 1, i - 1)>> \o split(Drop(s, i), sep)

RECURSIVE join(_, _)
join(lines, sep) ==
    IF Len(lines) = 0 THEN <<>>
    ELSE IF Len(lines) = 1 THEN lines[1]
    ELSE lines[1] \o <<sep>> \o join(Tail(lines), sep)

\* The grave accent, written out because a string here cannot hold it.
Backtick == "grave"

CodeFence == <<Backtick, Backtick, Backtick>>

\* line 144: definition.replace(/^```(?:mermaid)?\s*/i, '')
StripLeadingFence(s) ==
    IF startsWith(s, CodeFence)
    THEN LET afterFence == Drop(s, 3)
             afterTag == IF startsWith(toLowerCase(afterFence), <<"m", "e", "r", "m", "a", "i", "d">>) THEN Drop(afterFence, 7) ELSE afterFence
         IN trimStart(afterTag)
    ELSE s

\* line 145: definition.replace(/\s*```$/, '')
StripTrailingFence(s) ==
    IF endsWith(s, CodeFence) THEN trimEnd(SubSeq(s, 1, Len(s) - 3)) ELSE s

\* lines 142-146
StripFences(content) == trim(StripTrailingFence(StripLeadingFence(trim(content))))

CanonicalHeader == <<"f", "l", "o", "w", "c", "h", "a", "r", "t", " ", "T", "D", "\n">>

\* line 149
HasHeader(definition) ==
    startsWith(toLowerCase(definition), <<"f", "l", "o", "w", "c", "h", "a", "r", "t", " ", "t", "d">>) \/ startsWith(toLowerCase(definition), <<"g", "r", "a", "p", "h", " ", "t", "d">>)

\* line 152
HasConnector(definition) == Contains(definition, <<"-", "-", ">">>) \/ Contains(definition, <<"-", "-", "-">>)

\* lines 149-157: neither header nor connector, and line 157 returns the error.
Unrecognizable(definition) == ~HasHeader(definition) /\ ~HasConnector(definition)

EnsureHeader_never(definition) == definition

\* lines 149-154
EnsureHeader(definition) ==
    IF HasHeader(definition) THEN definition ELSE CanonicalHeader \o definition

OpenBrackets == {"[", "(", "{"}

CloseBrackets == {"]", ")", "}"}

\* id.replace(/[^a-zA-Z0-9_]/g, '_')
SanitizeId(id) == [i \in 1..Len(id) |-> IF id[i] \in WordChars THEN id[i] ELSE "_"]

\* lines 162-168: /^(\s*)(\w+)(?=\[|\(|\{)/gm
RECURSIVE SanitizeNodeIdsFrom(_, _)
SanitizeNodeIdsFrom(s, i) ==
    IF i > Len(s) THEN <<>>
    ELSE IF i = 1 \/ s[i - 1] = "\n"
    THEN LET w == SkipWhile(s, i, Whitespace)
             e == SkipWhile(s, w, WordChars)
         IN IF e > w /\ e <= Len(s) /\ s[e] \in OpenBrackets
            THEN SubSeq(s, i, w - 1) \o SanitizeId(SubSeq(s, w, e - 1)) \o SanitizeNodeIdsFrom(s, e)
            ELSE <<s[i]>> \o SanitizeNodeIdsFrom(s, i + 1)
    ELSE <<s[i]>> \o SanitizeNodeIdsFrom(s, i + 1)

SanitizeNodeIds(definition) == SanitizeNodeIdsFrom(definition, 1)

\* line 177: /[ "()[\]{};\/<>|!@#$%^&*+=`~]/
ProblematicChars ==
    {" ", "\"", "(", ")", "[", "]", "{", "}", ";", "/", "<", ">", "|", "!", "@", "#", "$", "%", "^", "&", "*", "+", "=", Backtick, "~"}

\* label.replace(/"/g, '\\"')
RECURSIVE EscapeQuotes(_)
EscapeQuotes(label) ==
    IF label = <<>> THEN <<>>
    ELSE (IF Head(label) = "\"" THEN <<"\\", "\"">> ELSE <<Head(label)>>) \o EscapeQuotes(Tail(label))

QuoteLabel_truncating(id, openBracket, label, closeBracket) ==
    SanitizeId(id) \o <<"[", "\"">> \o EscapeQuotes(SubSeq(label, 1, IF Len(label) > 100 THEN 100 ELSE Len(label))) \o <<"\"", "]">>

\* lines 171-189: the replacement callback
QuoteLabel(id, openBracket, label, closeBracket) ==
    LET sanitizedId == SanitizeId(id) IN
    IF (\E k \in DOMAIN label : label[k] \in ProblematicChars) \/ openBracket # "\""
    THEN sanitizedId \o <<"[", "\"">> \o EscapeQuotes(label) \o <<"\"", "]">>
    ELSE IF openBracket = "\""
    THEN sanitizedId \o <<"[", "\"">> \o EscapeQuotes(label) \o <<"\"", "]">>
    ELSE sanitizedId \o <<openBracket>> \o label \o <<closeBracket>>

\* (.*?)(\]|\)|\}) : the first closing character from i on before the line ends, 0 if none.
RECURSIVE FirstClose(_, _)
FirstClose(s, i) ==
    IF i > Len(s) \/ s[i] = "\n" THEN 0
    ELSE IF s[i] \in CloseBrackets THEN i
    ELSE FirstClose(s, i + 1)

\* line 171: /(\w+)(\[|\(|\{)(.*?)(\]|\)|\})/g
RECURSIVE QuoteLabelsFrom(_, _)
QuoteLabelsFrom(s, i) ==
    IF i > Len(s) THEN <<>>
    ELSE IF s[i] \in WordChars
    THEN LET e == SkipWhile(s, i, WordChars)
             q == IF e <= Len(s) /\ s[e] \in OpenBrackets THEN FirstClose(s, e + 1) ELSE 0
         IN IF q > 0
            THEN QuoteLabel(SubSeq(s, i, e - 1), s[e], SubSeq(s, e + 1, q - 1), s[q]) \o QuoteLabelsFrom(s, q + 1)
            ELSE SubSeq(s, i, e - 1) \o QuoteLabelsFrom(s, e)
    ELSE <<s[i]>> \o QuoteLabelsFrom(s, i + 1)

QuoteLabels(definition) == QuoteLabelsFrom(definition, 1)

\* line 195: /([\]\)\}"']\s*);/g replaced by '$1'
RECURSIVE RemoveSemicolonsFrom(_, _)
RemoveSemicolonsFrom(s, i) ==
    IF i > Len(s) THEN <<>>
    ELSE IF s[i] \in CloseBrackets \cup {"\"", "'"}
    THEN LET j == SkipWhile(s, i + 1, Whitespace) IN
         IF j <= Len(s) /\ s[j] = ";"
         THEN SubSeq(s, i, j - 1) \o RemoveSemicolonsFrom(s, j + 1)
         ELSE <<s[i]>> \o RemoveSemicolonsFrom(s, i + 1)
    ELSE <<s[i]>> \o RemoveSemicolonsFrom(s, i + 1)

RemoveSemicolons(definition) == RemoveSemicolonsFrom(definition, 1)

\* line 208: /-->|---/.test(trimmedLine)
isLink(trimmedLine) == Contains(trimmedLine, <<"-", "-", ">">>) \/ Contains(trimmedLine, <<"-", "-", "-">>)

AllIn(s, class) == \A k \in DOMAIN s : s[k] \in class

\* (?:\[.*?\]|\(.*?\)|{.*?}|\w+)
MatchesShape(g) ==
    \/ Len(g) >= 2 /\ g[1] = "[" /\ g[Len(g)] = "]" /\ ~Contains(g, <<"\n">>)
    \/ Len(g) >= 2 /\ g[1] = "(" /\ g[Len(g)] = ")" /\ ~Contains(g, <<"\n">>)
    \/ Len(g) >= 2 /\ g[1] = "{" /\ g[Len(g)] = "}" /\ ~Contains(g, <<"\n">>)
    \/ Len(g) >= 1 /\ AllIn(g, WordChars)

\* line 210: /^\s*[a-zA-Z0-9_]+\s*(?:\[.*?\]|\(.*?\)|{.*?}|\w+)\s*$/.test(trimmedLine)
\* Only the length b of the identifier is open to backtracking: the white space
\* before and after it is maximal and the shape ends at the last character
\* that is not white space.
isStrictNodeDef(trimmedLine) ==
    LET a == SkipWhile(trimmedLine, 1, Whitespace) - 1
        e == SkipWhile(trimmedLine, a + 1, WordChars) - 1
        d == Len(trimEnd(trimmedLine))
    IN \E b \in (a + 1)..e :
           LET c == SkipWhile(trimmedLine, b + 1, Whitespace) - 1 IN
           c < d /\ MatchesShape(SubSeq(trimmedLine, c + 1, d))

\* lines 199-220: the callback of lines.map
TerminateLine(line, index) ==
    LET trimmedLine == trim(line) IN
    IF index = 0 \/ trimmedLine = <<>> \/ startsWith(trimmedLine, <<"%", "%">>) \/ endsWith(trimmedLine, <<";">>)
    THEN line
    ELSE IF isLink(trimmedLine) /\ ~isStrictNodeDef(trimmedLine)
    THEN trimEnd(line) \o <<";">>
    ELSE line

\* lines 198-220
TerminateLinks(definition) ==
    LET lines == split(definition, "\n") IN
    join([k \in 1..Len(lines) |-> TerminateLine(lines[k], k - 1)], "\n")

\* lines 161-220: the repairs applied to a definition that has its header.
Repair(definition) ==
    TerminateLinks(RemoveSemicolons(QuoteLabels(SanitizeNodeIds(definition))))

----
\* conversationalFlowchartFlow

InvalidInputText == <<"Invalid input format. Please try again.">>

MissingMessagesText == <<"Invalid input format: Missing or empty conversation messages. Please try again.">>

MalformedMessageText(role) ==
    <<"Invalid input format: Malformed message or invalid role ('", role, "') in conversation. Please try again.">>

EmptyResponseText ==
    <<"Sorry, I encountered an issue processing your request. The AI response was empty. Please try again.">>

RephraseText ==
    <<"I seem to have trouble generating the flowchart structure correctly. Could you perhaps rephrase the last piece of information or provide more detail?">>

UnexpectedErrorText ==
    <<"An unexpected error occurred while processing your request.", " Please check the server logs or try again later.">>

\* A value received as a message: null, or an object whose role and content
\* are strings or not.
NullMessage ==
    [isObject |-> FALSE, role |-> [isString |-> FALSE, value |-> "undefined"],
     content |-> [isString |-> FALSE, value |-> <<>>]]

Msg(role, content) ==
    [isObject |-> TRUE, role |-> [isString |-> TRUE, value |-> role],
     content |-> [isString |-> TRUE, value |-> content]]

\* A value received as the input: not an object, or an object whose messages
\* are missing, not an array, or an array.  serializable is false for a value
\* JSON.stringify throws on (one that holds a BigInt or refers to itself).
NotAnObject ==
    [isObject |-> FALSE, hasMessages |-> FALSE, isArray |-> FALSE, messages |-> <<>>, serializable |-> TRUE]

WithoutMessages ==
    [isObject |-> TRUE, hasMessages |-> FALSE, isArray |-> FALSE, messages |-> <<>>, serializable |-> TRUE]

MessagesNotArray ==
    [isObject |-> TRUE, hasMessages |-> TRUE, isArray |-> FALSE, messages |-> <<>>, serializable |-> TRUE]

ConversationInput(messages) ==
    [isObject |-> TRUE, hasMessages |-> TRUE, isArray |-> TRUE, messages |-> messages, serializable |-> TRUE]

Unserializable(input) == [input EXCEPT !.serializable = FALSE]

\* What flowchartPrompt does: it returns an output of its schema, returns no
\* output, or throws.  hasContent is false for an output without content.
PromptOutput(type, content) ==
    [kind |-> "output", type |-> type, content |-> content, hasContent |-> TRUE]

OutputWithoutContent(type) ==
    [kind |-> "output", type |-> type, content |-> <<>>, hasContent |-> FALSE]

EmptyOutput == [kind |-> "empty", type |-> "", content |-> <<>>, hasContent |-> FALSE]

PromptThrows == [kind |-> "throws", type |-> "", content |-> <<>>, hasContent |-> FALSE]

NoPrompt == [kind |-> "none", type |-> "", content |-> <<>>, hasContent |-> FALSE]

\* The result of a stretch of the flow's try block: a returned reply, a thrown
\* exception, or neither yet.
ReplyOf(type, content) == [kind |-> "resolved", type |-> type, content |-> content]

Returns(reply) == [kind |-> "return", reply |-> reply]

Throws == [kind |-> "throw", reply |-> NoOutcome]

Continues == [kind |-> "continue", reply |-> NoOutcome]

Malformed_anyRole(message) ==
    \/ ~message.isObject
    \/ ~message.role.isString
    \/ ~message.content.isString

Malformed_anyContent(message) ==
    \/ ~message.isObject
    \/ ~message.role.isString
    \/ message.role.value \notin {"user", "assistant"}

\* line 123
Malformed(message) ==
    \/ ~message.isObject
    \/ ~message.role.isString
    \/ ~message.content.isString
    \/ message.role.value \notin {"user", "assistant"}

\* lines 111-127: reading message.role of a null message throws.
ValidateInput(input) ==
    IF ~input.isObject
    THEN Returns(ReplyOf("error", InvalidInputText))
    ELSE IF ~input.hasMessages \/ ~input.isArray \/ Len(input.messages) = 0
    THEN Returns(ReplyOf("error", MissingMessagesText))
    ELSE LET bad == {k \in DOMAIN input.messages : Malformed(input.messages[k])} IN
         IF bad = {} THEN Continues
         ELSE LET message == input.messages[CHOOSE k \in bad : \A j \in bad : k <= j] IN
              IF ~message.isObject THEN Throws
              ELSE Returns(ReplyOf("error", MalformedMessageText(message.role.value)))

CleanFlowchart_noCheck(content) ==
    Returns(ReplyOf("flowchart", Repair(EnsureHeader(StripFences(content)))))

\* lines 141-224
CleanFlowchart(content) ==
    LET definition == StripFences(content) IN
    IF Unrecognizable(definition)
    THEN Returns(ReplyOf("error", RephraseText))
    ELSE Returns(ReplyOf("flowchart", Repair(EnsureHeader(definition))))

HandleOutput_emptyAsQuestion(behaviour) ==
    IF behaviour.kind = "throws" THEN Throws
    ELSE IF behaviour.kind = "empty" THEN Returns(ReplyOf("question", <<>>))
    ELSE IF behaviour.type = "flowchart"
    THEN IF behaviour.hasContent THEN CleanFlowchart(behaviour.content) ELSE Throws
    ELSE Returns(ReplyOf(behaviour.type, behaviour.content))

\* lines 130-235: output.content.trim() throws when the content is missing.
HandleOutput(behaviour) ==
    IF behaviour.kind = "throws" THEN Throws
    ELSE IF behaviour.kind = "empty" THEN Returns(ReplyOf("error", EmptyResponseText))
    ELSE IF behaviour.type = "flowchart"
    THEN IF behaviour.hasContent THEN CleanFlowchart(behaviour.content) ELSE Throws
    ELSE Returns(ReplyOf(behaviour.type, behaviour.content))

Catch_rethrows(result) == result.reply

\* lines 237-255
Catch(result) ==
    IF result.kind = "throw" THEN ReplyOf("error", UnexpectedErrorText) ELSE result.reply

\* line 108, before the try block: JSON.stringify(input) throws or not.
LogInputThrows(input) == ~input.serializable

\* lines 107-256: the reply returned, or the rejection of the flow's promise.
conversationalFlowchartFlow(input, behaviour) ==
    LET validation == ValidateInput(input) IN
    IF LogInputThrows(input) THEN Rejection
    ELSE Catch(IF validation.kind = "continue" THEN HandleOutput(behaviour) ELSE validation)

----
\* React state

Snapshot(c, u, f, l, k) ==
    [conversation |-> c, userInput |-> u, flowchartDefinition |-> f, isLoading |-> l, isComplete |-> k]

state == Snapshot(conversation, userInput, flowchartDefinition, isLoading, isComplete)

\* The run of the flow while the form is the subject.
IdleFlow ==
    [pc |-> "idle", input |-> NotAnObject, behaviour |-> NoPrompt, invocations |-> 0, reply |-> NoOutcome]

chatVars == <<mounted, conversation, userInput, flowchartDefinition, isLoading, isComplete, view, calls, toasts>>

ChatInit ==
    /\ mounted = FALSE
    /\ conversation = <<>>
    /\ userInput = <<>>
    /\ flowchartDefinition = Null
    /\ isLoading = FALSE
    /\ isComplete = FALSE
    /\ view = Snapshot(<<>>, <<>>, Null, FALSE, FALSE)
    /\ calls = <<>>
    /\ toasts = <<>>

\* MermaidChart and the stepped FlowchartForm while they are not the subject.
NoChart == [pc |-> "none"]

NoWizard == [pc |-> "none"]

Init == ChatInit /\ flow = IdleFlow /\ chart = NoChart /\ wizard = NoWizard

\* useEffect(..., []) : seeds the assistant greeting once, after the first render.
SeedGreeting ==
    /\ ~mounted
    /\ mounted' = TRUE
    /\ conversation' = <<[role |-> "assistant", content |-> GreetingText]>>
    /\ UNCHANGED <<userInput, flowchartDefinition, isLoading, isComplete, calls, toasts, flow, chart, wizard>>
    /\ view' = Snapshot(conversation', userInput', flowchartDefinition', isLoading', isComplete')

\* onChange of the textarea: setUserInput(e.target.value).
onChange(t) ==
    /\ mounted
    /\ userInput' = t
    /\ UNCHANGED <<mounted, conversation, flowchartDefinition, isLoading, isComplete, calls, toasts, flow, chart, wizard>>
    /\ view' = Snapshot(conversation', userInput', flowchartDefinition', isLoading', isComplete')

\* The guard without its isLoading test.
Rejected_noLoading(trimmedInput, loading, complete) ==
    trimmedInput = <<>> \/ complete

\* The guard without its isComplete test.
Rejected_noComplete(trimmedInput, loading, complete) ==
    trimmedInput = <<>> \/ loading

\* line 510: if (!trimmedInput || isLoading || isComplete) return;
Rejected(trimmedInput, loading, complete) ==
    trimmedInput = <<>> \/ loading \/ complete

\* An accepted submission that forgets setIsLoading(true).
Submit_noLoading(st, newUserMessage) ==
    [st EXCEPT !.conversation = Append(@, newUserMessage),
               !.userInput = <<>>]

\* lines 513-515: the three state updates of an accepted submission.
Submit(st, newUserMessage) ==
    [st EXCEPT !.conversation = Append(@, newUserMessage),
               !.userInput = <<>>,
               !.isLoading = TRUE]

\* The request built from the rendered conversation alone.
InputMessages_withoutNew(renderedConversation, newUserMessage) ==
    renderedConversation

\* line 518: { messages: [...conversation, newUserMessage] }
InputMessages(renderedConversation, newUserMessage) ==
    Append(renderedConversation, newUserMessage)

\* The handler up to the await of line 519.
handleSendMessage ==
    /\ mounted
    /\ Len(calls) < MaxCalls
    /\ LET trimmedInput == trim(view.userInput) IN
       IF Rejected(trimmedInput, view.isLoading, view.isComplete)
       THEN UNCHANGED vars
       ELSE LET newUserMessage == [role |-> "user", content |-> trimmedInput]
                st == Submit(state, newUserMessage)
            IN
            /\ conversation' = st.conversation
            /\ userInput' = st.userInput
            /\ flowchartDefinition' = st.flowchartDefinition
            /\ isLoading' = st.isLoading
            /\ isComplete' = st.isComplete
            /\ calls' = Append(calls, [messages |-> InputMessages(view.conversation, newUserMessage),
                                       status |-> "pending", outcome |-> NoOutcome, prompt |-> NoPrompt])
            /\ UNCHANGED <<mounted, toasts, flow, chart, wizard>>
            /\ view' = st

\* A question shown with the user's role.
QuestionBranch_asUser(st, result) ==
    [st EXCEPT !.conversation = Append(@, [role |-> "user", content |-> result.content])]

\* lines 521-523
QuestionBranch(st, result) ==
    [st EXCEPT !.conversation = Append(@, [role |-> "assistant", content |-> result.content])]

\* A flowchart reply whose content is not stored.
FlowchartBranch_notStored(st, result) ==
    [st EXCEPT !.conversation = Append(@, [role |-> "assistant", content |-> AcknowledgementText]),
               !.isComplete = TRUE]

\* lines 524-528
FlowchartBranch(st, result) ==
    [st EXCEPT !.conversation = Append(@, [role |-> "assistant", content |-> AcknowledgementText]),
               !.flowchartDefinition = Some(result.content),
               !.isComplete = TRUE]

\* An error reply reported without the reply's content.
ErrorBranch_dropsContent(st, result) ==
    [st EXCEPT !.conversation = Append(@, [role |-> "assistant", content |-> ErrorPrefix])]

\* An error reply that replaces the conversation instead of appending to it.
ErrorBranch_replaces(st, result) ==
    [st EXCEPT !.conversation = <<[role |-> "assistant", content |-> ErrorPrefix \o result.content]>>]

\* lines 533-535
ErrorBranch(st, result) ==
    [st EXCEPT !.conversation = Append(@, [role |-> "assistant", content |-> ErrorPrefix \o result.content])]

\* A catch block that only logs.
CatchBranch_silent(st) == st

\* lines 543-546
CatchBranch(st) ==
    [st EXCEPT !.conversation = Append(@, [role |-> "assistant", content |-> GenericFailureText])]

\* A handler without the finally block.
Finally_noReset(st) == st

\* lines 552-554
Finally(st) == [st EXCEPT !.isLoading = FALSE]

\* lines 521-554: the rest of handleSendMessage, run when the promise settles.
Continuation(st, o) ==
    Finally(IF o.kind = "rejected" THEN CatchBranch(st)
            ELSE IF o.type = "question" THEN QuestionBranch(st, o)
            ELSE IF o.type = "flowchart" THEN FlowchartBranch(st, o)
            ELSE IF o.type = "error" THEN ErrorBranch(st, o)
            ELSE st)

\* toast(...) calls of lines 529-532, 536-540 and 547-551.
ToastsFor(o) ==
    IF o.kind = "rejected"
    THEN <<[title |-> "Error", description |-> <<"Failed to get response from AI. Please try again.">>, variant |-> "destructive"]>>
    ELSE IF o.type = "flowchart"
    THEN <<[title |-> "Flowchart Generated!", description |-> <<"Your technical flowchart is ready below.">>, variant |-> "default"]>>
    ELSE IF o.type = "error"
    THEN <<[title |-> "Error",
            description |-> IF o.content # <<>> THEN o.content ELSE <<"An unexpected error occurred.">>,
            variant |-> "destructive"]>>
    ELSE <<>>

\* The promise of call i settles with outcome o and handleSendMessage resumes;
\* prompt is what flowchartPrompt did for the call, when the model follows it.
Settle(i, o, prompt) ==
    /\ calls[i].status = "pending"
    /\ LET st == Continuation(state, o) IN
       /\ conversation' = st.conversation
       /\ userInput' = st.userInput
       /\ flowchartDefinition' = st.flowchartDefinition
       /\ isLoading' = st.isLoading
       /\ isComplete' = st.isComplete
    /\ toasts' = toasts \o ToastsFor(o)
    /\ calls' = [calls EXCEPT ![i] = [@ EXCEPT !.status = "done", !.outcome = o, !.prompt = prompt]]
    /\ UNCHANGED <<mounted, view, flow, chart, wizard>>

\* Any outcome the awaited promise can have.
Reply(i, o) == Settle(i, o, NoPrompt)

\* The request as the server action receives it.
AsInput(messages) ==
    ConversationInput([k \in DOMAIN messages |-> Msg(messages[k].role, messages[k].content)])

\* Behaviours of flowchartPrompt followed through the flow in a chat session.
ChatTexts ==
    {<<"A", "[", "S", "t", "a", "r", "t", "]", " ", "-", "-", ">", " ", "B", "[", "E", "n", "d", "]">>,
     <<"h", "e", "l", "l", "o">>,
     CodeFence \o <<"\n", "A", "[", "S", "t", "a", "r", "t", "]", "\n">> \o CodeFence}

ChatBehaviours ==
    {EmptyOutput, PromptThrows} \cup {PromptOutput("flowchart", t) : t \in ChatTexts}

\* line 519 with lines 34-36: the outcome is what conversationalFlowchartFlow returns.
FlowReply(i, behaviour) ==
    Settle(i, conversationalFlowchartFlow(AsInput(calls[i].messages), behaviour), behaviour)

\* React commits the render scheduled by the updates made after the await.
Render ==
    /\ view # state
    /\ view' = state
    /\ UNCHANGED <<mounted, conversation, userInput, flowchartDefinition, isLoading, isComplete, calls, toasts, flow, chart, wizard>>

Next ==
    \/ SeedGreeting
    \/ \E t \in InputTexts : onChange(t)
    \/ handleSendMessage
    \/ \E i \in DOMAIN calls : \E o \in Outcomes : Reply(i, o)
    \/ \E i \in DOMAIN calls : \E b \in ChatBehaviours : FlowReply(i, b)
    \/ Render

Spec == Init /\ [][Next]_vars

\* The event loop runs a scheduled render.
FairSpec == Spec /\ WF_vars(Render)

----
\* One run of conversationalFlowchartFlow on an arbitrary input

\* Number of messages of the transcripts tried.
MaxMessages == 2

\* Number of lines, after the header, of the diagram texts tried.
MaxLines == 2

FlowMessages ==
    {Msg("user", <<"h", "i">>), Msg("assistant", <<"o", "k">>), Msg("assistant", <<>>), Msg("system", <<"h", "i">>),
     [Msg("user", <<"h", "i">>) EXCEPT !.role = [isString |-> FALSE, value |-> "undefined"]],
     [Msg("user", <<"h", "i">>) EXCEPT !.content = [isString |-> FALSE, value |-> <<>>]],
     NullMessage}

SerializableInputs ==
    {NotAnObject, WithoutMessages, MessagesNotArray, ConversationInput(<<>>)}
        \cup {ConversationInput(m) : m \in UNION {[1..n -> FlowMessages] : n \in 1..MaxMessages}}

FlowInputs == SerializableInputs \cup {Unserializable(i) : i \in SerializableInputs}

WellFormedInput == ConversationInput(<<Msg("assistant", GreetingText), Msg("user", <<"h", "i">>)>>)

Headers == {<<>>, <<"f", "l", "o", "w", "c", "h", "a", "r", "t", " ", "T", "D", "\n">>, <<"g", "r", "a", "p", "h", " ", "T", "D", "\n">>, <<"F", "l", "o", "w", "c", "h", "a", "r", "t", " ", "t", "d", "\n">>}

LineForms ==
    {<<"A", " ", "-", "-", ">", " ", "B">>, <<"A", " ", "-", "-", ">", " ", "B", ";">>, <<"A", "[", "S", "t", "a", "r", "t", "]", " ", "-", "-", ">", " ", "B", "[", "E", "n", "d", "]">>, <<"A", "[", "S", "t", "a", "r", "t", "]", " ", "-", "-", ">", " ", "B", "[", "E", "n", "d", "]", ";">>, <<"A", " ", "-", "-", "-", " ", "B">>,
     <<"A", " ", "-", "-", " ", "y", "e", "s", " ", "-", "-", ">", " ", "B", "(", "x", " ", "y", ")">>, <<"A", "[", "S", "t", "a", "r", "t", "]", ";">>, <<"B", "(", "E", "n", "d", ")", ";">>, <<"C", "{", "d", "}", ";">>, <<"A", "(", "\"", "f", "(", "x", ")", " ", "-", "-", ">", " ", "y", "\"", ")", ";">>,
     <<"A", "[", "S", "t", "a", "r", "t", "]">>, <<"h", "e", "l", "l", "o">>, <<>>}

RawText(header, lines, fenced) ==
    (IF fenced THEN <<Backtick, Backtick, Backtick, "m", "e", "r", "m", "a", "i", "d", "\n">> ELSE <<>>) \o header \o join(lines, "\n")
        \o (IF fenced THEN <<"\n", Backtick, Backtick, Backtick>> ELSE <<>>)

RawTexts ==
    {RawText(h, ls, f) : h \in Headers, ls \in UNION {[1..n -> LineForms] : n \in 1..MaxLines}, f \in BOOLEAN}

\* A label of 101 characters.
LongLabel == [i \in 1..101 |-> "x"]

\* Replies with an identifier that holds characters outside \w, and with a
\* label longer than any in RawTexts.
UnusualTexts ==
    {<<"f", "l", "o", "w", "c", "h", "a", "r", "t", " ", "T", "D", "\n", "m", "y", "-", "i", "d", "[", "S", "t", "a", "r", "t", "]", " ", "-", "-", ">", " ", "B">>, <<"f", "l", "o", "w", "c", "h", "a", "r", "t", " ", "T", "D", "\n", " ", " ", "a", ".", "b", "(", "G", "o", ")">>, <<"f", "l", "o", "w", "c", "h", "a", "r", "t", " ", "T", "D", "\n", "A", " ", "-", "-", ">", " ", "B", "\n", "m", "y", "-", "i", "d", "{", "o", "k", "}", ";">>,
     <<"f", "l", "o", "w", "c", "h", "a", "r", "t", " ", "T", "D", "\n", "A", "[">> \o LongLabel \o <<"]", " ", "-", "-", ">", " ", "B">>, <<"f", "l", "o", "w", "c", "h", "a", "r", "t", " ", "T", "D", "\n", "A", "[">> \o LongLabel \o <<"]">>, <<"A", "(">> \o LongLabel \o <<"x", ")">>}

PromptBehaviours ==
    {EmptyOutput, PromptThrows, OutputWithoutContent("flowchart"),
     PromptOutput("question", <<"w", "h", "y">>), PromptOutput("error", <<"n", "o">>)}
        \cup {PromptOutput("flowchart", t) : t \in RawTexts \cup UnusualTexts}

\* The behaviours tried with every input.
FewBehaviours == {EmptyOutput, PromptThrows, PromptOutput("question", <<"w", "h", "y">>)}

StartOfFlow(input, behaviour) ==
    [pc |-> "start", input |-> input, behaviour |-> behaviour, invocations |-> 0, reply |-> NoOutcome]

FlowInit ==
    /\ ChatInit /\ chart = NoChart /\ wizard = NoWizard
    /\ flow \in {StartOfFlow(i, b) : i \in FlowInputs, b \in FewBehaviours}
                    \cup {StartOfFlow(WellFormedInput, b) : b \in PromptBehaviours}

\* lines 108-130: the input is logged and validated, then flowchartPrompt is invoked.
flowStart ==
    /\ flow.pc = "start"
    /\ LET validation == ValidateInput(flow.input) IN
       flow' = IF LogInputThrows(flow.input)
               THEN [flow EXCEPT !.pc = "thrown", !.reply = Rejection]
               ELSE IF validation.kind = "continue"
               THEN [flow EXCEPT !.pc = "prompt", !.invocations = @ + 1]
               ELSE [flow EXCEPT !.pc = "returned", !.reply = Catch(validation)]
    /\ UNCHANGED <<chatVars, chart, wizard>>

\* lines 130-256: flowchartPrompt settles and the flow returns.
promptSettles ==
    /\ flow.pc = "prompt"
    /\ flow' = [flow EXCEPT !.pc = "returned", !.reply = Catch(HandleOutput(flow.behaviour))]
    /\ UNCHANGED <<chatVars, chart, wizard>>

FlowNext == flowStart \/ promptSettles

FlowSpec == FlowInit /\ [][FlowNext]_vars

----
\* generateFlowchartFlow (src/unnamed/part_000)

\* line 135
FallbackDefinition == <<"f", "l", "o", "w", "c", "h", "a", "r", "t", " ", "T", "D", "\n", " ", " ", " ", " ", "e", "r", "r", "o", "r", "[", "E", "r", "r", "o", "r", " ", "G", "e", "n", "e", "r", "a", "t", "i", "n", "g", " ", "F", "l", "o", "w", "c", "h", "a", "r", "t", "]">>

\* line 125: definition.replace(/^```mermaid\s*/, '')
StripMermaidFence(s) ==
    IF startsWith(s, CodeFence \o <<"m", "e", "r", "m", "a", "i", "d">>) THEN trimStart(Drop(s, 10)) ELSE s

\* What the prompt of line 117 does: an output with its flowchartDefinition,
\* an output without one, no output, or an exception.
GeneratorOutput(text) == [kind |-> "output", type |-> "", content |-> text, hasContent |-> TRUE]

GeneratorOutputWithoutDefinition == [kind |-> "output", type |-> "", content |-> <<>>, hasContent |-> FALSE]

\* line 121: output?.flowchartDefinition || ''
RawDefinition(behaviour) ==
    IF behaviour.kind = "output" /\ behaviour.hasContent THEN behaviour.content ELSE <<>>

\* lines 122-127
StripGenerated(raw) == trim(StripTrailingFence(StripMermaidFence(trim(raw))))

NormalizeDefinition_noFallback(raw) ==
    LET definition == StripGenerated(raw) IN
    IF definition # <<>> /\ ~startsWith(definition, <<"f", "l", "o", "w", "c", "h", "a", "r", "t", " ", "T", "D">>)
    THEN <<"f", "l", "o", "w", "c", "h", "a", "r", "t", " ", "T", "D", "\n">> \o definition
    ELSE definition

\* lines 122-138
NormalizeDefinition(raw) ==
    LET definition == StripGenerated(raw) IN
    IF definition # <<>> /\ ~startsWith(definition, <<"f", "l", "o", "w", "c", "h", "a", "r", "t", " ", "T", "D">>)
    THEN <<"f", "l", "o", "w", "c", "h", "a", "r", "t", " ", "T", "D", "\n">> \o definition
    ELSE IF definition = <<>> THEN FallbackDefinition
    ELSE definition

\* lines 116-139: the output returned, or the rejection of the flow's promise.
generateFlowchartFlow(behaviour) ==
    IF behaviour.kind = "throws" THEN Rejection
    ELSE ReplyOf("flowchart", NormalizeDefinition(RawDefinition(behaviour)))

\* Texts tried as flowchartDefinition: the diagram texts, and texts made of
\* white space and fences only.
GeneratorTexts ==
    RawTexts \cup {<<" ">>, <<Backtick, Backtick, Backtick>>, <<Backtick, Backtick, Backtick, "m", "e", "r", "m", "a", "i", "d">>, <<Backtick, Backtick, Backtick, "m", "e", "r", "m", "a", "i", "d", "\n", Backtick, Backtick, Backtick>>, <<Backtick, Backtick, Backtick, "\n", "h", "e", "l", "l", "o", "\n", Backtick, Backtick, Backtick>>, <<" ", "\n", "\t">>}

GeneratorBehaviours ==
    {PromptThrows, EmptyOutput, GeneratorOutputWithoutDefinition}
        \cup {GeneratorOutput(t) : t \in GeneratorTexts}

\* The values of the wizard's form, which the flow hands to the prompt unread.
GeneratorInput == [isObject |-> TRUE, serializable |-> TRUE]

GeneratorInit ==
    /\ ChatInit /\ chart = NoChart /\ wizard = NoWizard
    /\ flow \in {StartOfFlow(GeneratorInput, b) : b \in GeneratorBehaviours}

\* line 117: the prompt is invoked.
generatorStart ==
    /\ flow.pc = "start"
    /\ flow' = [flow EXCEPT !.pc = "prompt", !.invocations = @ + 1]
    /\ UNCHANGED <<chatVars, chart, wizard>>

\* lines 117-138: the prompt settles and the flow returns or throws.
generatorSettles ==
    /\ flow.pc = "prompt"
    /\ LET result == generateFlowchartFlow(flow.behaviour) IN
       flow' = [flow EXCEPT !.pc = IF result.kind = "rejected" THEN "thrown" ELSE "returned",
                            !.reply = result]
    /\ UNCHANGED <<chatVars, chart, wizard>>

GeneratorNext == generatorStart \/ generatorSettles

GeneratorSpec == GeneratorInit /\ [][GeneratorNext]_vars

----
\* The stepped FlowchartForm (mermaid-chart.tsx lines 143-453)

\* line 197
totalSteps == 5

\* line 169: userFlowDescription: z.string().min(10, ...)
MinDescriptionLength == 10

\* line 173: backendDatabaseConnection: z.string().min(5, ...)
MinConnectionLength == 5

\* The most nextStep calls that wait for form.trigger at one time.
MaxPending == 1

\* The most generateFlowchart calls under way at one time.
MaxRequests == 2

\* Texts typed into the two text fields that are validated.
DescriptionTexts == {<<>>, <<"t", "o", "o", " ", "s", "h", "o", "r", "t">>, <<"s", "i", "g", "n", " ", "i", "n", ",", " ", "t", "h", "e", "n", " ", "p", "a", "y">>}

ConnectionTexts == {<<>>, <<"s", "q", "l">>, <<"p", "o", "s", "t", "g", "r", "e", "s">>}

\* lines 187-193: defaultValues, and lines 179-181
WizardStart ==
    [pc |-> "wizard", currentStep |-> 1, previousStep |-> 0,
     userFlowDescription |-> <<>>, apiOrServerSide |-> "api", loadersOrSkeletons |-> "skeletons",
     backendDatabaseConnection |-> <<>>,
     isLoading |-> FALSE, flowchartData |-> Null, validations |-> <<>>, requests |-> 0]

WizardInit ==
    /\ ChatInit /\ flow = IdleFlow /\ chart = NoChart
    /\ wizard = WizardStart

\* The field of each step is rendered at that step only (lines 273-408).
setValue(step, field, value) ==
    /\ wizard.currentStep = step
    /\ wizard' = [wizard EXCEPT ![field] = value]
    /\ UNCHANGED <<chatVars, flow, chart>>

\* lines 201-208: form.trigger(fieldsToValidate) on the values of the form.
isValid(step, values) ==
    /\ step = 1 => Len(values.userFlowDescription) >= MinDescriptionLength
    /\ step = 5 => Len(values.backendDatabaseConnection) >= MinConnectionLength

\* lines 200-208: Next is pressed; the handler runs up to the await of line 208
\* with the currentStep of the render it was created in.
nextStep ==
    /\ wizard.pc = "wizard"
    /\ ~wizard.isLoading
    /\ Len(wizard.validations) < MaxPending
    /\ wizard.requests + Len(wizard.validations) < MaxRequests
    /\ wizard' = [wizard EXCEPT !.validations =
                      Append(@, [currentStep |-> wizard.currentStep, isValid |-> isValid(wizard.currentStep, wizard)])]
    /\ UNCHANGED <<chatVars, flow, chart>>

\* lines 212-217
StepAfter(currentStep, apiOrServerSide) ==
    IF currentStep = 2 /\ apiOrServerSide = "ssr" THEN currentStep + 2 ELSE currentStep + 1

\* lines 226-231
StepBefore(currentStep, apiOrServerSide) ==
    IF currentStep = 4 /\ apiOrServerSide = "ssr" THEN currentStep - 2 ELSE currentStep - 1

\* lines 235-236: onSubmit up to the await of line 242.
Submitted(w) ==
    [w EXCEPT !.isLoading = TRUE, !.flowchartData = Null, !.requests = @ + 1]

MovedTo(w, step) ==
    [w EXCEPT !.previousStep = w.currentStep, !.currentStep = step]

\* lines 209-220: form.trigger settles and nextStep resumes.
triggerSettles ==
    /\ wizard.validations # <<>>
    /\ LET v == Head(wizard.validations)
           w == [wizard EXCEPT !.validations = Tail(@)]
       IN wizard' = IF ~v.isValid THEN w
                    ELSE IF v.currentStep < totalSteps THEN MovedTo(w, StepAfter(v.currentStep, w.apiOrServerSide))
                    ELSE Submitted(w)
    /\ UNCHANGED <<chatVars, flow, chart>>

\* line 272: the form is submitted from the keyboard in the one-line field of
\* step 4 (line 376); form.handleSubmit validates every field and calls
\* onSubmit, whatever isLoading is.
handleSubmit ==
    /\ wizard.pc = "wizard"
    /\ wizard.currentStep = 4 /\ wizard.apiOrServerSide = "api"
    /\ wizard.requests + Len(wizard.validations) < MaxRequests
    /\ isValid(1, wizard) /\ isValid(5, wizard)
    /\ wizard' = Submitted(wizard)
    /\ UNCHANGED <<chatVars, flow, chart>>

\* lines 223-232, the button of line 411 disabled at step 1 and while loading.
prevStep ==
    /\ wizard.pc = "wizard"
    /\ ~wizard.isLoading
    /\ wizard.currentStep > 1
    /\ wizard' = MovedTo(wizard, StepBefore(wizard.currentStep, wizard.apiOrServerSide))
    /\ UNCHANGED <<chatVars, flow, chart>>

\* lines 242-261: generateFlowchart settles and onSubmit resumes.
generateSettles(behaviour) ==
    /\ wizard.pc = "wizard"
    /\ wizard.requests > 0
    /\ LET result == generateFlowchartFlow(behaviour) IN
       wizard' = [wizard EXCEPT !.requests = @ - 1,
                                !.isLoading = FALSE,
                                !.flowchartData = IF result.kind = "rejected" THEN @ ELSE Some(result.content)]
    /\ UNCHANGED <<chatVars, flow, chart>>

WizardBehaviours == {PromptThrows, EmptyOutput, GeneratorOutput(<<"A", " ", "-", "-", ">", " ", "B">>)}

WizardNext ==
    \/ \E t \in DescriptionTexts : setValue(1, "userFlowDescription", t)
    \/ \E v \in {"api", "ssr"} : setValue(2, "apiOrServerSide", v)
    \/ \E v \in {"loaders", "skeletons", "none"} : setValue(3, "loadersOrSkeletons", v)
    \/ \E t \in ConnectionTexts : setValue(5, "backendDatabaseConnection", t)
    \/ nextStep
    \/ triggerSettles
    \/ handleSubmit
    \/ prevStep
    \/ \E b \in WizardBehaviours : generateSettles(b)

WizardSpec == WizardInit /\ [][WizardNext]_vars

----
\* MermaidChart (mermaid-chart.tsx lines 1-141, and the later version of
\* src/unnamed/part_001 lines 14-330)

\* The most changes of the chartDefinition prop of one mounted chart.
MaxChanges == 2

\* The characters of line 46, which a string of this module cannot hold.
SpecialCharacters == {"fl-ligature", "degree", "pilcrow"}

\* String.prototype.replace with a global pattern that is a fixed text.
RECURSIVE replaceAll(_, _, _)
replaceAll(s, pattern, replacement) ==
    IF s = <<>> THEN <<>>
    ELSE IF startsWith(s, pattern) THEN replacement \o replaceAll(Drop(s, Len(pattern)), pattern, replacement)
    ELSE <<Head(s)>> \o replaceAll(Tail(s), pattern, replacement)

\* part_001 lines 30-51
sanitizeMermaidDefinition(definition) ==
    IF definition = <<>> THEN <<>>
    ELSE LET unfenced == StripTrailingFence(StripLeadingFence(trim(definition)))
             headed == IF startsWith(toLowerCase(unfenced), <<"f", "l", "o", "w", "c", "h", "a", "r", "t">>) \/ startsWith(toLowerCase(unfenced), <<"g", "r", "a", "p", "h">>)
                       THEN unfenced ELSE <<"f", "l", "o", "w", "c", "h", "a", "r", "t", " ", "T", "D", "\n">> \o unfenced
             plain == SelectSeq(headed, LAMBDA ch : ch \notin SpecialCharacters)
         IN replaceAll(replaceAll(plain, <<"&", "q", "u", "o", "t", ";">>, <<"\\", "\"">>), <<"#", "q", "u", "o", "t", ";">>, <<"\\", "\"">>)

\* The two versions of the component.
ChartVersions == {"mermaid-chart.tsx", "part_001"}

\* Values of the chartDefinition prop; both forms show the chart only for a
\* definition that is not empty (lines 439 and 650).
ChartDefinitions ==
    {<<"f", "l", "o", "w", "c", "h", "a", "r", "t", " ", "T", "D", "\n", "A", " ", "-", "-", ">", " ", "B", ";">>, <<"A", " ", "-", "-", ">", " ", "B">>, CodeFence \o <<"m", "e", "r", "m", "a", "i", "d", "\n", "g", "r", "a", "p", "h", " ", "T", "D", "\n", "A", "[", "\"", "x", "&", "q", "u", "o", "t", ";", "y", "\"", "]">> \o <<"degree", "\n">> \o CodeFence}

\* What the syntax check of lines 65-76 (part_001 lines 195-208) can come to.
\* mermaid.parse is missing; it throws; it returns; or it returns a promise
\* that is rejected later, which nothing awaits. part_001 makes no call of
\* mermaid.parse (line 201 is a comment), only the test of its type.
CheckResults(version) ==
    IF version = "part_001" THEN {"unavailable", "passed"}
    ELSE {"unavailable", "thrown", "passed", "rejected"}

\* The detail mermaid gives about a text it refuses.
MessageOf(definition) == definition

\* line 45 (part_001 line 163)
InitFailureText(version) ==
    IF version = "part_001" THEN <<"Failed to initialize the flowchart renderer: ", "message">>
    ELSE <<"Failed to initialize the flowchart renderer.">>

\* line 73
SyntaxErrorText(check, definition) ==
    <<"Invalid flowchart syntax: ">> \o (IF check = "unavailable" THEN <<"Mermaid 'parse' function not available.">> ELSE MessageOf(definition))

\* line 91
RenderErrorText(definition) == <<"Error rendering flowchart: ">> \o MessageOf(definition)

\* lines 17-22: the component after its first render, its effects not yet run.
ChartStart(version, parent, chartDefinition) ==
    [pc |-> "rendered", version |-> version, parent |-> parent, chartDefinition |-> chartDefinition,
     svgContent |-> Null, error |-> Null, isLoading |-> TRUE,
     mermaidInitialized |-> FALSE, depInitialized |-> FALSE,
     frames |-> <<>>, pending |-> <<>>, check |-> "none", renders |-> <<>>, escaped |-> FALSE, changes |-> 0]

\* lines 24-49: the first effect; initialize throws or returns.
initEffect(c, initializeThrows) ==
    IF c.mermaidInitialized THEN c
    ELSE IF initializeThrows
    THEN [c EXCEPT !.error = Some(InitFailureText(c.version)), !.isLoading = FALSE]
    ELSE [c EXCEPT !.mermaidInitialized = TRUE]

\* The text handed to mermaid.render: line 85, part_001 lines 192 and 217.
RenderedText(c) ==
    IF c.version = "part_001" THEN sanitizeMermaidDefinition(c.chartDefinition) ELSE c.chartDefinition

\* lines 51-111 (part_001 lines 170-251): the second effect. The interval of
\* part_001 lines 174-181 changes nothing and is left out.
renderEffect(c, check) ==
    IF ~c.mermaidInitialized THEN [c EXCEPT !.isLoading = TRUE]
    ELSE IF c.chartDefinition # <<>>
    THEN LET cleared == [c EXCEPT !.isLoading = TRUE, !.error = Null, !.svgContent = Null, !.check = check] IN
         IF check \in {"unavailable", "thrown"}
         THEN [cleared EXCEPT !.error = Some(SyntaxErrorText(check, c.chartDefinition)), !.isLoading = FALSE]
         ELSE [cleared EXCEPT !.frames = Append(@, [definition |-> RenderedText(c), prop |-> c.chartDefinition, check |-> check]),
                              !.escaped = @ \/ check = "rejected"]
    ELSE [c EXCEPT !.isLoading = FALSE, !.svgContent = Null, !.error = Null, !.check = "none"]

\* What React renders from.
Displayed(c) == <<c.svgContent, c.error, c.isLoading>>

\* The render that follows a change of state: part_001 line 251 lists
\* mermaidInitialized.current among the dependencies, so the second effect runs
\* again in the first render that finds it changed.
Commit(before, after, check) ==
    IF after.version = "part_001" /\ Displayed(after) # Displayed(before)
                                  /\ after.depInitialized # after.mermaidInitialized
    THEN renderEffect([after EXCEPT !.depInitialized = after.mermaidInitialized], check)
    ELSE after

\* The state of the chat form that shows the chart for a definition: one turn,
\* answered by a flowchart reply.
CompletedChat(definition) ==
    LET newUserMessage == [role |-> "user", content |-> <<"h", "i">>]
        seeded == Snapshot(<<[role |-> "assistant", content |-> GreetingText]>>, <<"h", "i">>, Null, FALSE, FALSE)
    IN Continuation(Submit(seeded, newUserMessage), ReplyOf("flowchart", definition))

ChartInit ==
    /\ flow = IdleFlow /\ wizard = NoWizard
    /\ \E version \in ChartVersions, definition \in ChartDefinitions :
          \/ /\ chart = ChartStart(version, "stepped FlowchartForm", definition)
             /\ ChatInit
          \/ /\ chart = ChartStart(version, "FlowchartForm", definition)
             /\ LET st == CompletedChat(definition)
                    o == ReplyOf("flowchart", definition)
                IN /\ mounted = TRUE
                   /\ conversation = st.conversation
                   /\ userInput = st.userInput
                   /\ flowchartDefinition = st.flowchartDefinition
                   /\ isLoading = st.isLoading
                   /\ isComplete = st.isComplete
                   /\ view = st
                   /\ calls = <<[messages |-> InputMessages(<<[role |-> "assistant", content |-> GreetingText]>>, [role |-> "user", content |-> <<"h", "i">>]),
                                 status |-> "done", outcome |-> o, prompt |-> NoPrompt]>>
                   /\ toasts = ToastsFor(o)

\* The effects of the first commit, in the order of their declaration.
Mount(initializeThrows, check) ==
    /\ chart.pc = "rendered"
    /\ check \in CheckResults(chart.version)
    /\ LET after == renderEffect(initEffect(chart, initializeThrows), check) IN
       chart' = [Commit(chart, after, check) EXCEPT !.pc = "mounted"]
    /\ UNCHANGED <<chatVars, flow, wizard>>

\* The parent renders the chart with another chartDefinition: in the stepped
\* form a second generateFlowchart call settles (line 243) while the chart of
\* the first is shown. The chat form never does: its flowchartDefinition is set
\* once (line 527).
propChange(definition, check) ==
    /\ chart.pc = "mounted"
    /\ chart.parent = "stepped FlowchartForm"
    /\ chart.changes < MaxChanges
    /\ definition # chart.chartDefinition
    /\ check \in CheckResults(chart.version)
    /\ chart' = renderEffect([chart EXCEPT !.chartDefinition = definition, !.changes = @ + 1,
                                           !.depInitialized = chart.mermaidInitialized], check)
    /\ UNCHANGED <<chatVars, flow, wizard>>

\* line 100: the animation frame runs renderChart up to the await of line 85.
renderChart ==
    /\ chart.pc = "mounted"
    /\ chart.frames # <<>>
    /\ chart' = [chart EXCEPT !.frames = Tail(@),
                              !.pending = Append(@, Head(chart.frames)),
                              !.renders = Append(@, Head(chart.frames))]
    /\ UNCHANGED <<chatVars, flow, wizard>>

Without(s, k) == SubSeq(s, 1, k - 1) \o SubSeq(s, k + 1, Len(s))

\* A render whose failure is reported to the parent as well.
renderSettles_reportsToParent(k, succeeds, check) ==
    /\ chart.pc = "mounted"
    /\ k \in DOMAIN chart.pending
    /\ check \in CheckResults(chart.version)
    /\ succeeds => chart.pending[k].check # "rejected"
    /\ LET r == chart.pending[k]
           after == [chart EXCEPT !.pending = Without(@, k),
                                  !.svgContent = IF succeeds THEN Some(r.definition) ELSE Null,
                                  !.error = IF succeeds THEN Null ELSE Some(RenderErrorText(r.definition)),
                                  !.isLoading = FALSE]
       IN chart' = Commit(chart, after, check)
    /\ flowchartDefinition' = IF succeeds THEN flowchartDefinition ELSE Null
    /\ UNCHANGED <<mounted, conversation, userInput, isLoading, isComplete, view, calls, toasts, flow, wizard>>

\* lines 85-96 (part_001 lines 217-238): mermaid.render settles and renderChart
\* resumes. A text that mermaid.parse rejects is rejected by mermaid.render.
renderSettles(k, succeeds, check) ==
    /\ chart.pc = "mounted"
    /\ k \in DOMAIN chart.pending
    /\ check \in CheckResults(chart.version)
    /\ succeeds => chart.pending[k].check # "rejected"
    /\ LET r == chart.pending[k]
           after == [chart EXCEPT !.pending = Without(@, k),
                                  !.svgContent = IF succeeds THEN Some(r.definition) ELSE Null,
                                  !.error = IF succeeds THEN Null ELSE Some(RenderErrorText(r.definition)),
                                  !.isLoading = FALSE]
       IN chart' = Commit(chart, after, check)
    /\ UNCHANGED <<chatVars, flow, wizard>>

AllChecks == {"unavailable", "thrown", "passed", "rejected"}

ChartNext ==
    \/ \E initializeThrows \in BOOLEAN, check \in AllChecks : Mount(initializeThrows, check)
    \/ \E definition \in ChartDefinitions, check \in AllChecks : propChange(definition, check)
    \/ renderChart
    \/ \E k \in 1..(MaxChanges + 2), succeeds \in BOOLEAN, check \in AllChecks : renderSettles(k, succeeds, check)

ChartSpec == ChartInit /\ [][ChartNext]_vars

----
\* Properties

Pending == {i \in DOMAIN calls : calls[i].status = "pending"}

AwaitingReply == Pending # {}

Done(i, type) ==
    /\ i \in DOMAIN calls
    /\ calls[i].status = "done"
    /\ calls[i].outcome.kind = "resolved"
    /\ calls[i].outcome.type = type

Thrown(i) ==
    /\ i \in DOMAIN calls
    /\ calls[i].status = "done"
    /\ calls[i].outcome.kind = "rejected"

FlowchartProcessed == \E i \in DOMAIN calls : Done(i, "flowchart")

IsPrefix(s, t) == Len(s) <= Len(t) /\ SubSeq(t, 1, Len(s)) = s

\* A step in which the continuation of call i ran.
Resumed(i) == calls[i].status = "pending" /\ calls'[i].status = "done"

\* C1: a handleSendMessage call made while a converseAndGenerateFlowchart
\* request is outstanding appends no message and issues no request.
C1_SubmitWhileAwaitingRejected ==
    [][(AwaitingReply /\ handleSendMessage) => (conversation' = conversation /\ calls' = calls)]_vars

\* A request is outstanding and the textarea holds a non-empty text.
C1_Witness ==
    AwaitingReply /\ Len(calls) < MaxCalls /\ trim(view.userInput) # <<>>

\* C2: once a flowchart reply has been processed isComplete stays true, and
\* no handleSendMessage call issues a request or changes the conversation or
\* the stored flowchartDefinition.
C2_CompleteIsTerminal ==
    [][FlowchartProcessed =>
          /\ isComplete /\ isComplete'
          /\ handleSendMessage => UNCHANGED <<conversation, calls, flowchartDefinition>>]_vars

\* The completed form has been rendered and the textarea holds a non-empty text.
C2_Witness ==
    FlowchartProcessed /\ ~view.isLoading /\ Len(calls) < MaxCalls /\ trim(view.userInput) # <<>>

\* C3: on a flowchart reply the continuation appends the fixed acknowledgement
\* as one assistant message, stores the reply's content as flowchartDefinition
\* and sets isComplete.
C3_FlowchartReply ==
    [][\A i \in DOMAIN calls :
          (Resumed(i) /\ calls'[i].outcome.kind = "resolved" /\ calls'[i].outcome.type = "flowchart") =>
              /\ conversation' = Append(conversation, [role |-> "assistant", content |-> AcknowledgementText])
              /\ flowchartDefinition' = Some(calls'[i].outcome.content)
              /\ isComplete']_vars

\* A non-empty flowchart text has been stored.
C3_Witness ==
    \E i \in DOMAIN calls :
        Done(i, "flowchart") /\ calls[i].outcome.content # <<>> /\ flowchartDefinition = Some(calls[i].outcome.content)

\* C4: at most one converseAndGenerateFlowchart request is outstanding.
C4_AtMostOneOutstanding == Cardinality(Pending) <= 1

\* The second request of a session is outstanding, the first having finished.
C4_Witness == Len(calls) = 2 /\ Pending = {2}

\* C5: an accepted call appends one user message holding the trimmed input,
\* sets isLoading, and sends the stored conversation as it is after the append.
C5_AcceptedSubmit ==
    [][Len(calls') = Len(calls) + 1 =>
          /\ conversation' = Append(conversation, [role |-> "user", content |-> trim(userInput)])
          /\ trim(userInput) # <<>>
          /\ isLoading'
          /\ calls'[Len(calls')].status = "pending"
          /\ calls'[Len(calls')].messages = conversation']_vars

\* A request of a later turn is outstanding: its transcript holds the greeting,
\* the first turn and the new user message.
C5_Witness ==
    \E i \in Pending : Len(calls[i].messages) >= 4 /\ calls[i].messages = conversation

\* C6: on a question reply the continuation appends the reply's content as one
\* assistant message and returns to Collecting; the first turn of a session,
\* answered by a question, leaves three messages.
C6_QuestionReply ==
    [][\A i \in DOMAIN calls :
          (Resumed(i) /\ calls'[i].outcome.kind = "resolved" /\ calls'[i].outcome.type = "question") =>
              /\ conversation' = Append(conversation, [role |-> "assistant", content |-> calls'[i].outcome.content])
              /\ ~isLoading' /\ ~isComplete'
              /\ i = 1 => Len(conversation') = 3]_vars

\* The first turn was answered by a question.
C6_Witness ==
    Done(1, "question") /\ Len(calls) = 1 /\ Len(conversation) = 3 /\ ~isLoading /\ ~isComplete

\* C7: on an error reply the continuation appends one assistant message that
\* contains the reply's content, leaves isComplete false and flowchartDefinition
\* unchanged, and leaves a state in which a non-empty submission passes the guard.
C7_ErrorReply ==
    [][\A i \in DOMAIN calls :
          (Resumed(i) /\ calls'[i].outcome.kind = "resolved" /\ calls'[i].outcome.type = "error") =>
              /\ Len(conversation') = Len(conversation) + 1
              /\ IsPrefix(conversation, conversation')
              /\ conversation'[Len(conversation')].role = "assistant"
              /\ Contains(conversation'[Len(conversation')].content, calls'[i].outcome.content)
              /\ ~isComplete'
              /\ flowchartDefinition' = flowchartDefinition
              /\ ~Rejected(<<"a">>, isLoading', isComplete')]_vars

\* An error reply with a non-empty content was followed by an accepted submission.
C7_Witness ==
    Done(1, "error") /\ calls[1].outcome.content # <<>> /\ Len(calls) = 2

\* C8: when the request throws, the continuation appends the generic failure
\* text as one assistant message and returns to Collecting.
C8_ThrownRequest ==
    [][\A i \in DOMAIN calls :
          (Resumed(i) /\ calls'[i].outcome.kind = "rejected") =>
              /\ conversation' = Append(conversation, [role |-> "assistant", content |-> GenericFailureText])
              /\ conversation'[Len(conversation')].role = "assistant"
              /\ ~isLoading' /\ ~isComplete']_vars

\* A request has thrown and the form is back in Collecting.
C8_Witness ==
    \E i \in DOMAIN calls : Thrown(i) /\ ~isLoading /\ ~isComplete /\ Pending = {}

\* C9: whenever no request is outstanding isLoading is false, the rendered
\* isLoading eventually follows, and unless a flowchart was produced a rendered
\* form holding a non-empty text accepts the next handleSendMessage call.
C9_Continuable ==
    /\ [](~AwaitingReply => ~isLoading)
    /\ (~AwaitingReply ~> ~view.isLoading)
    /\ []((mounted /\ ~AwaitingReply /\ ~FlowchartProcessed /\ view = state /\ trim(view.userInput) # <<>>)
            => ~Rejected(trim(view.userInput), view.isLoading, view.isComplete))

\* A reply of unrecognised type was followed by an accepted submission.
C9_Witness ==
    Done(1, "other") /\ Len(calls) = 2

\* C10: once the greeting is seeded, every step leaves the previous
\* conversation as a prefix of the new one.
C10_AppendOnly ==
    [][mounted => IsPrefix(conversation, conversation')]_vars

\* Two full turns have been appended after the greeting.
C10_Witness ==
    mounted /\ Len(conversation) = 5 /\ Pending = {}

\* The flow has returned its reply.
Returned == flow.pc = "returned"

\* The flow has ended, with a reply or with an exception.
Settled == flow.pc \in {"returned", "thrown"}

PromptInvoked == flow.invocations > 0

\* flowchartPrompt was invoked and answered with a flowchart that has a content.
FlowchartOutput(behaviour) ==
    behaviour.kind = "output" /\ behaviour.type = "flowchart" /\ behaviour.hasContent

\* The reply's content, trimmed and without fences, has no header and no connector.
UnrecognizableReply(behaviour) ==
    /\ FlowchartOutput(behaviour)
    /\ LET d == StripFences(behaviour.content) IN
       /\ ~startsWith(toLowerCase(d), <<"f", "l", "o", "w", "c", "h", "a", "r", "t", " ", "t", "d">>)
       /\ ~startsWith(toLowerCase(d), <<"g", "r", "a", "p", "h", " ", "t", "d">>)
       /\ ~Contains(d, <<"-", "-", ">">>)
       /\ ~Contains(d, <<"-", "-", "-">>)

\* C11: when flowchartPrompt answers with a flowchart whose content, trimmed and
\* without fences, has neither header nor connector, the flow's reply is the
\* error that asks to rephrase, and the continuation leaves flowchartDefinition
\* null and isComplete false, so MermaidChart is not rendered.
C11_UnrecognizableDiagram ==
    [][\A i \in DOMAIN calls :
          (Resumed(i) /\ UnrecognizableReply(calls'[i].prompt)) =>
              /\ calls'[i].outcome = ReplyOf("error", RephraseText)
              /\ flowchartDefinition' = Null
              /\ ~isComplete']_vars

\* A fenced text without header and connector came back as the error reply.
C11_Witness ==
    \E i \in DOMAIN calls :
        /\ Done(i, "error")
        /\ UnrecognizableReply(calls[i].prompt)
        /\ startsWith(calls[i].prompt.content, CodeFence)
        /\ flowchartDefinition = Null /\ ~isComplete

\* The transcript is a non-empty array whose messages all have a role in {user, assistant}.
RolesAllowed(input) ==
    /\ input.isObject /\ input.hasMessages /\ input.isArray
    /\ Len(input.messages) > 0
    /\ \A k \in DOMAIN input.messages :
          /\ input.messages[k].isObject
          /\ input.messages[k].role.isString
          /\ input.messages[k].role.value \in {"user", "assistant"}

\* C12: flowchartPrompt is invoked only for a non-empty array of messages whose
\* roles are all user or assistant; for any other input the flow returns an
\* error reply without invoking it.
C12_PromptOnlyForValidTranscript ==
    /\ PromptInvoked => RolesAllowed(flow.input)
    /\ (Settled /\ ~RolesAllowed(flow.input)) =>
           (Returned /\ flow.reply.type = "error" /\ ~PromptInvoked)

HasEmptyContent(input) ==
    /\ input.isArray
    /\ \E k \in DOMAIN input.messages :
          /\ input.messages[k].isObject
          /\ input.messages[k].content.isString
          /\ input.messages[k].content.value = <<>>

HasNonStringContent(input) ==
    /\ input.isArray
    /\ \E k \in DOMAIN input.messages :
          input.messages[k].isObject /\ ~input.messages[k].content.isString

\* C13 as stated: a transcript with a message whose content is the empty
\* string is rejected with an error reply without invoking flowchartPrompt.
C13_EmptyContentRejected ==
    (HasEmptyContent(flow.input) /\ flow.pc # "start") =>
        (~PromptInvoked /\ (Returned => flow.reply.type = "error"))

\* C13: a transcript with a message whose content is not a string is never
\* passed to flowchartPrompt and a reply returned for it has type error; the
\* empty string is a string, and no reply is returned for a transcript that is
\* well formed apart from it without flowchartPrompt having been invoked.
C13_NonStringContentRejected ==
    /\ HasNonStringContent(flow.input) =>
           (~PromptInvoked /\ (Returned => flow.reply.type = "error"))
    /\ (HasEmptyContent(flow.input) /\ ~HasNonStringContent(flow.input)
            /\ RolesAllowed(flow.input) /\ Returned) => PromptInvoked

\* A transcript whose only fault is a content that is not a string was rejected.
C13_Witness ==
    /\ Returned /\ ~PromptInvoked /\ flow.reply.type = "error"
    /\ HasNonStringContent(flow.input) /\ RolesAllowed(flow.input)

\* C14: when flowchartPrompt returns no output the flow's reply has type error,
\* and the continuation appends one assistant message holding its content and
\* leaves isLoading and isComplete false.
C14_EmptyOutputIsFailure ==
    [][\A i \in DOMAIN calls :
          (Resumed(i) /\ calls'[i].prompt = EmptyOutput) =>
              /\ calls'[i].outcome.kind = "resolved" /\ calls'[i].outcome.type = "error"
              /\ Len(conversation') = Len(conversation) + 1
              /\ IsPrefix(conversation, conversation')
              /\ conversation'[Len(conversation')].role = "assistant"
              /\ conversation'[Len(conversation')].content = ErrorPrefix \o EmptyResponseText
              /\ flowchartDefinition' = flowchartDefinition
              /\ ~isLoading' /\ ~isComplete']_vars

\* An empty output was answered and the form is back in Collecting.
C14_Witness ==
    \E i \in DOMAIN calls :
        /\ Done(i, "error") /\ calls[i].prompt = EmptyOutput
        /\ Pending = {} /\ ~isLoading /\ ~isComplete

\* C15: whatever the input and whatever flowchartPrompt does, the flow ends by
\* returning a reply of type question, flowchart or error.
C15_NoFaultEscapes ==
    Settled =>
        /\ Returned
        /\ flow.reply.kind = "resolved"
        /\ flow.reply.type \in {"question", "flowchart", "error"}

\* flowchartPrompt answered with a flowchart whose raw text holds a connector.
ConnectorReply ==
    /\ Returned /\ PromptInvoked /\ FlowchartOutput(flow.behaviour)
    /\ (Contains(flow.behaviour.content, <<"-", "-", ">">>) \/ Contains(flow.behaviour.content, <<"-", "-", "-">>))

\* C16 as stated: the cleanup of a text with a connector starts with
\* 'flowchart td', letter case aside.
C16_StartsWithFlowchartTD ==
    ConnectorReply =>
        (flow.reply.type = "flowchart" /\ startsWith(toLowerCase(flow.reply.content), <<"f", "l", "o", "w", "c", "h", "a", "r", "t", " ", "t", "d">>))

\* C16: the cleanup of a text with a connector starts with 'flowchart td' or
\* with 'graph td', letter case aside.
C16_StartsWithHeader ==
    ConnectorReply =>
        /\ flow.reply.type = "flowchart"
        /\ \/ startsWith(toLowerCase(flow.reply.content), <<"f", "l", "o", "w", "c", "h", "a", "r", "t", " ", "t", "d">>)
           \/ startsWith(toLowerCase(flow.reply.content), <<"g", "r", "a", "p", "h", " ", "t", "d">>)

\* A text that came with the header graph TD has kept it.
C16_Witness ==
    ConnectorReply /\ startsWith(flow.reply.content, <<"g", "r", "a", "p", "h", " ", "T", "D">>)

\* flowchartPrompt answered with a flowchart that the cleanup accepted.
Cleaned == Returned /\ PromptInvoked /\ FlowchartOutput(flow.behaviour) /\ flow.reply.type = "flowchart"

\* C17: the cleanup applied to its own output returns that output.
C17_Idempotent ==
    Cleaned => CleanFlowchart(flow.reply.content).reply = flow.reply

\* The lines the cleanup works on, and the lines it returns.
LinesBefore == split(EnsureHeader(StripFences(flow.behaviour.content)), "\n")

LinesAfter == split(flow.reply.content, "\n")

EndsWithOneSemicolon(line) ==
    endsWith(trimEnd(line), <<";">>) /\ ~endsWith(trimEnd(line), <<";", ";">>)

\* C18: every line after the header that holds a connector comes out ending
\* with exactly one ';'.
C18_EdgeLinesTerminated ==
    Cleaned =>
        /\ Len(LinesAfter) = Len(LinesBefore)
        /\ \A k \in 2..Len(LinesBefore) :
              (Contains(LinesBefore[k], <<"-", "-", ">">>) \/ Contains(LinesBefore[k], <<"-", "-", "-">>))
                  => EndsWithOneSemicolon(LinesAfter[k])

Closing(openBracket) ==
    IF openBracket = "[" THEN "]" ELSE IF openBracket = "(" THEN ")" ELSE "}"

\* A label without brackets, or a label in double quotes.
PlainLabel(label) ==
    \/ \A k \in DOMAIN label : label[k] \notin OpenBrackets \cup CloseBrackets
    \/ /\ Len(label) >= 2 /\ label[1] = "\"" /\ label[Len(label)] = "\""
       /\ \A k \in 2..(Len(label) - 1) : label[k] # "\""

\* ID[label]; ID(label); or ID{label};
NodeDeclarationWithSeparator(line) ==
    LET t == trim(line)
        e == SkipWhile(t, 1, WordChars)
    IN /\ e > 1 /\ Len(t) >= e + 2
       /\ t[e] \in OpenBrackets
       /\ t[Len(t) - 1] = Closing(t[e])
       /\ t[Len(t)] = ";"
       /\ PlainLabel(SubSeq(t, e + 1, Len(t) - 2))

\* C19: a line that is a node declaration followed by ';' comes out without a
\* ';' at its end.
C19_NodeDeclarationsUnterminated ==
    Cleaned =>
        /\ Len(LinesAfter) = Len(LinesBefore)
        /\ \A k \in 2..Len(LinesBefore) :
              NodeDeclarationWithSeparator(LinesBefore[k]) => ~endsWith(trimEnd(LinesAfter[k]), <<";">>)

\* C20: the reply 'A[Start] --> B[End]' of flowchartPrompt is stored as
\* 'flowchart TD\nA[Start] --> B[End];', the labels Start and End unquoted in
\* their brackets.
C20_SimpleLabelsKept ==
    \A i \in DOMAIN calls :
        (calls[i].status = "done" /\ calls[i].prompt = PromptOutput("flowchart", <<"A", "[", "S", "t", "a", "r", "t", "]", " ", "-", "-", ">", " ", "B", "[", "E", "n", "d", "]">>))
            => flowchartDefinition = Some(<<"f", "l", "o", "w", "c", "h", "a", "r", "t", " ", "T", "D", "\n", "A", "[", "S", "t", "a", "r", "t", "]", " ", "-", "-", ">", " ", "B", "[", "E", "n", "d", "]", ";">>)

\* The text the prompt returned, trimmed and without fences, has neither
\* header nor connector.
NothingRecognizable(raw) ==
    LET d == StripFences(raw) IN
    /\ ~startsWith(toLowerCase(d), <<"f", "l", "o", "w", "c", "h", "a", "r", "t", " ", "t", "d">>)
    /\ ~startsWith(toLowerCase(d), <<"g", "r", "a", "p", "h", " ", "t", "d">>)
    /\ ~Contains(raw, <<"-", "-", ">">>)
    /\ ~Contains(raw, <<"-", "-", "-">>)

\* C21 as stated: the cleanup of generateFlowchartFlow returns the fallback
\* diagram for every text without connector and header, and never the empty
\* text.
C21_FallbackForUnrecognizable ==
    (Returned /\ NothingRecognizable(RawDefinition(flow.behaviour))) =>
        flow.reply.content = FallbackDefinition

\* C21: the cleanup of generateFlowchartFlow never returns the empty text; it
\* returns the fallback diagram when nothing is left of the prompt's
\* text after trimming and fence removal, and any other text without the
\* header 'flowchart TD' comes back with that header in front of it.
C21_FallbackForEmpty ==
    Returned =>
        LET raw == RawDefinition(flow.behaviour)
            rest == trim(StripTrailingFence(StripMermaidFence(trim(raw))))
        IN /\ flow.reply.content # <<>>
           /\ startsWith(flow.reply.content, <<"f", "l", "o", "w", "c", "h", "a", "r", "t", " ", "T", "D">>)
           /\ (rest = <<>>) => (flow.reply.content = FallbackDefinition)
           /\ (rest # <<>> /\ ~startsWith(rest, <<"f", "l", "o", "w", "c", "h", "a", "r", "t", " ", "T", "D">>))
                  => (flow.reply.content = <<"f", "l", "o", "w", "c", "h", "a", "r", "t", " ", "T", "D", "\n">> \o rest)

\* A text made of a fence only came back as the fallback diagram.
C21_Witness ==
    /\ Returned /\ flow.reply.content = FallbackDefinition
    /\ flow.behaviour.hasContent /\ flow.behaviour.content = <<Backtick, Backtick, Backtick, "m", "e", "r", "m", "a", "i", "d", "\n", Backtick, Backtick, Backtick>>

\* The characters the identifiers of the replies are written with.
IdentifierChars == WordChars \cup {"-", "."}

\* The identifier that begins the line and stands right before an opening
\* bracket, <<>> when the line does not begin with one.
LeadingIdentifier(line) ==
    LET t == trimStart(line)
        e == SkipWhile(t, 1, IdentifierChars)
    IN IF e > 1 /\ e <= Len(t) /\ t[e] \in OpenBrackets THEN SubSeq(t, 1, e - 1) ELSE <<>>

\* C22: in the text the cleanup returns, the identifier that begins a line
\* right before '[', '(' or '{' is the identifier of the prompt's line with
\* every character outside [A-Za-z0-9_] replaced by '_', so it holds
\* characters of that set only.
C22_IdentifiersSanitized ==
    Cleaned =>
        /\ Len(LinesAfter) = Len(LinesBefore)
        /\ \A k \in DOMAIN LinesBefore :
              /\ AllIn(LeadingIdentifier(LinesAfter[k]), WordChars)
              /\ LeadingIdentifier(LinesBefore[k]) # <<>>
                    => LeadingIdentifier(LinesAfter[k]) = SanitizeId(LeadingIdentifier(LinesBefore[k]))

\* The labels the expression of line 171 finds in a text from position i on.
RECURSIVE LabelsFrom(_, _)
LabelsFrom(s, i) ==
    IF i > Len(s) THEN {}
    ELSE IF s[i] \in WordChars
    THEN LET e == SkipWhile(s, i, WordChars)
             q == IF e <= Len(s) /\ s[e] \in OpenBrackets THEN FirstClose(s, e + 1) ELSE 0
         IN IF q > 0 THEN {SubSeq(s, e + 1, q - 1)} \cup LabelsFrom(s, q + 1) ELSE LabelsFrom(s, e)
    ELSE LabelsFrom(s, i + 1)

\* C23 as stated: no label of the text the cleanup returns is longer than
\* 100 characters.
C23_LabelsTruncated ==
    Cleaned => \A label \in LabelsFrom(flow.reply.content, 1) : Len(label) <= 100

\* C23: the cleanup shortens no label: a label of letters, digits, '_' and
\* spaces comes out complete between '["' and '"]', however long it is.
C23_LabelsKeptWhole ==
    Cleaned =>
        \A label \in LabelsFrom(EnsureHeader(StripFences(flow.behaviour.content)), 1) :
            AllIn(label, WordChars \cup {" "})
                => Contains(flow.reply.content, <<"[", "\"">> \o label \o <<"\"", "]">>)

\* A label of 101 characters came out complete.
C23_Witness ==
    /\ Cleaned
    /\ LongLabel \in LabelsFrom(flow.behaviour.content, 1)
    /\ Contains(flow.reply.content, <<"[", "\"">> \o LongLabel \o <<"\"", "]">>)

\* Assistant and user messages take turns, the assistant first.
Alternates(c) ==
    \A k \in DOMAIN c : c[k].role = (IF k % 2 = 1 THEN "assistant" ELSE "user")

\* The transcript of a form that waits for the user: the greeting first, the
\* roles in turns, an assistant message last.
TurnsAnswered ==
    /\ conversation # <<>>
    /\ conversation[1] = [role |-> "assistant", content |-> GreetingText]
    /\ Alternates(conversation)
    /\ conversation[Len(conversation)].role = "assistant"

\* C26: whenever the seeded form has isLoading false, its transcript starts
\* with the greeting, alternates the roles and ends with an assistant message,
\* whatever the type of the replies.
C26_EveryTurnAnswered ==
    (mounted /\ ~isLoading) => TurnsAnswered

\* C27: isComplete is true exactly when a diagram description is stored, and a
\* step in which a request ends with anything but a flowchart reply changes
\* neither.
C27_CompleteIffStored ==
    /\ [](isComplete <=> flowchartDefinition # Null)
    /\ [][\A i \in DOMAIN calls :
            (calls[i].status = "pending" /\ calls'[i].status = "done"
                /\ ~(calls'[i].outcome.kind = "resolved" /\ calls'[i].outcome.type = "flowchart"))
                => UNCHANGED <<isComplete, flowchartDefinition>>]_vars

\* A question was answered, then a flowchart reply was stored and completed
\* the conversation.
C27_Witness ==
    /\ Done(1, "question") /\ Done(2, "flowchart")
    /\ isComplete /\ flowchartDefinition # Null

\* C28: with the choice 'ssr' the stepped form leaves step 2 for step 3, the
\* step of the loading indicators, and is never at step 4, the step of the
\* request parameters.
C28_SsrSkipsParameters ==
    (wizard.pc = "wizard" /\ wizard.apiOrServerSide = "ssr") =>
        /\ wizard.currentStep # 4
        /\ (wizard.previousStep = 2 /\ wizard.currentStep > 2) => wizard.currentStep = 3

\* The syntax check of the latest run of the second effect failed.
CheckFailed == chart.check \in {"unavailable", "thrown", "rejected"}

\* Nothing is scheduled and no render is under way.
ChartQuiescent == chart.pc = "mounted" /\ chart.frames = <<>> /\ chart.pending = <<>>

\* C24: mermaid.render is called only for a definition whose syntax check did
\* not fail, no failure of the check escapes the effect, and once the check
\* has failed, with no earlier render left to settle, the chart shows an error
\* and is not loading.
C24_RenderOnlyAfterCheck ==
    chart.pc = "mounted" =>
        /\ \A k \in DOMAIN chart.renders : chart.renders[k].check = "passed"
        /\ ~chart.escaped
        /\ (CheckFailed /\ ChartQuiescent /\ chart.changes = 0) => (chart.error # Null /\ ~chart.isLoading)

\* C25: no step of MermaidChart changes the conversation, isComplete or
\* flowchartDefinition of the form that shows it.
C25_ParentUntouched ==
    [][ChartNext => UNCHANGED <<conversation, isComplete, flowchartDefinition>>]_vars

\* The chart of a completed chat form shows an error, and the form still holds
\* its three messages and the definition.
C25_Witness ==
    /\ chart.pc = "mounted" /\ chart.parent = "FlowchartForm" /\ chart.error # Null /\ ~chart.isLoading
    /\ isComplete /\ flowchartDefinition = Some(chart.chartDefinition) /\ Len(conversation) = 3

\* C29: once every render has settled after a change of chartDefinition, the
\* SVG shown is the one of the current chartDefinition and an error shown is
\* about it.
C29_LatestDefinitionDisplayed ==
    (ChartQuiescent /\ chart.changes > 0 /\ chart.mermaidInitialized) =>
        /\ chart.svgContent # Null => chart.svgContent = Some(RenderedText(chart))
        /\ chart.error # Null =>
              chart.error \in {Some(RenderErrorText(RenderedText(chart)))}
                                \cup {Some(SyntaxErrorText(check, chart.chartDefinition)) : check \in AllChecks}

\* C30: once every render has settled the chart is not loading and does not
\* hold both an SVG and an error, whether the render succeeded or failed, the
\* syntax check failed or mermaid.initialize threw.
C30_SettlesNotLoading ==
    ChartQuiescent => (~chart.isLoading /\ ~(chart.svgContent # Null /\ chart.error # Null))

====
